---- MODULE Spec2Model ----
(***************************************************************************)
(* Query-session orchestration of the market-intelligence dashboard page   *)
(* (YourMainContent): the tab collection with its active-tab pointer and   *)
(* its localStorage copy, the exchange registry, the busy flag, the        *)
(* shared agent state, and the invocations of fetchMarketNews with their   *)
(* two suspension points (the geolocation callback and the network fetch). *)
(*                                                                         *)
(* The operations are the component's functions.  fetchMarketNews has no   *)
(* guard of its own on the busy flag or on its arguments (the only gate is *)
(* the `disabled` attribute of the two buttons), so it is modelled as      *)
(* callable with any mode and any exchange id whenever the page is         *)
(* mounted.                                                                *)
(*                                                                         *)
(* The route handler of /api/agent_fetch, through which the page reaches   *)
(* the news service, is modelled as a function of what it meets (Proxy)    *)
(* and has a specification of its own (SpecProxy).                         *)
(*                                                                         *)
(* Numbers with decimals are scaled by 10^4 (40.7128 is 407128).           *)
(***************************************************************************)
EXTENDS Integers, Sequences, FiniteSets, TLC

\* ---------------------------------------------------------------- bounds
MaxQueries == 3    \* invocations of fetchMarketNews in one behaviour

\* ------------------------------------------------------ program constants
FallbackLat == 407128     \* 40.7128
FallbackLon == -740060    \* -74.0060
Days == 1
MaxResults == 20

\* ------------------------------------------------------------ JS values
NULL == <<>>                 \* null (also: no id, no exchange record)
UNDEFINED == "undefined"     \* the value of a key that is not set

\* The exchange list the backend serves at /api/exchanges.
Registry ==
    << [id |-> "nyse", name |-> "NYSE", location |-> <<407100, -740000>>] >>

\* Exchange ids a caller may pass: none, one of the registry, an unknown one.
ExchangeIds == {"", "nyse", "lse"}

\* Positions the geolocation capability may report.
Positions == { <<515074, -1278>> }

\* Record sequences the news service may return in `data`.  Spec draws the
\* responses from DataSets; SpecShared, which adds the assistant's writes,
\* draws them from DataSets and MoreDataSets.
DataSets == { <<"A">> }
MoreDataSets == { <<"B">> }

\* Values the assistant component may write into `proverbs`.
Proverbs == { <<"p">> }

VARIABLES
    phase,        \* "unmounted" | "mounted" | "crashed" (render threw)
    tabs,         \* useState<QueryTab[]>
    activeTabId,  \* useState<string | null>
    exchanges,    \* useState<any[]>
    isLoading,    \* useState(false): the busy flag
    state,        \* useCoAgent state: [proverbs, market_news]
    storage,      \* localStorage["market_tabs"]: NULL or a text
    registryReq,  \* "none" | "pending" | "done": the fetch of /api/exchanges
    hasGeo,       \* navigator.geolocation is present
    clock,        \* the latest reading of Date.now() taken so far
    queries,      \* the invocations of fetchMarketNews in flight, in call order
    started,      \* invocations of fetchMarketNews so far
    last          \* the operation that produced this state, with its inputs

vars == << phase, tabs, activeTabId, exchanges, isLoading, state, storage,
           registryReq, hasGeo, clock, queries, started, last >>

\* ------------------------------------------------------------- helpers
RECURSIVE FilterOut(_, _)
\* prev.filter(t => t.id !== tabId)
FilterOut(s, tabId) ==
    IF s = <<>> THEN <<>>
    ELSE IF Head(s).id # tabId
         THEN <<Head(s)>> \o FilterOut(Tail(s), tabId)
         ELSE FilterOut(Tail(s), tabId)

\* exchanges.find(e => e.id === exchangeId) finds an element
Resolves(exs, exchangeId) == \E i \in 1..Len(exs) : exs[i].id = exchangeId

\* exchanges.find(e => e.id === exchangeId): the first match
Find(exs, exchangeId) ==
    LET hits == { i \in 1..Len(exs) : exs[i].id = exchangeId }
    IN exs[CHOOSE i \in hits : \A j \in hits : i <= j]

\* `tab_${Date.now()}`
TabId(t) == <<"tab_", t>>

\* new Date().toISOString()
IsoString(t) == <<"iso", t>>

\* A serialiser that also leaves out the nested exchange record
StringifyObject_Flat(o) ==
    [k \in { k \in DOMAIN o \ {"exchangeData"} :
                k # "exchange" \/ o[k] # UNDEFINED } |-> o[k]]

\* JSON.stringify of one object: a key whose value is undefined is left out.
StringifyObject(o) ==
    [k \in { k \in DOMAIN o : k # "exchange" \/ o[k] # UNDEFINED } |-> o[k]]

\* JSON.stringify(tabs): the text of an array of objects.
JSONStringify(ts) ==
    [kind |-> "array", items |-> [i \in 1..Len(ts) |-> StringifyObject(ts[i])]]

\* Texts that localStorage may hold when the page is first opened.
Unparseable == [kind |-> "unparseable"]   \* JSON.parse throws
NotTabs == [kind |-> "other"]             \* parses, but not to a tab array
EmptyArray == [kind |-> "array", items |-> <<>>]

\* A persist effect that stores the newest tab only
Persisted_NewestOnly(ts, st) ==
    IF Len(ts) > 0 THEN JSONStringify(<< ts[1] >>) ELSE st

\* A persist effect without the `tabs.length > 0` test
Persisted_Always(ts, st) == JSONStringify(ts)

\* The persist effect: runs after every render in which `tabs` changed.
Persisted(ts, st) == IF Len(ts) > 0 THEN JSONStringify(ts) ELSE st

InitialAgentState == [proverbs |-> <<>>, market_news |-> <<>>]

\* s without its i-th element
Remove(s, i) == SubSeq(s, 1, i - 1) \o SubSeq(s, i + 1, Len(s))

NoOp == [op |-> "none"]

\* ------------------------------------------------------------------ Init
Init ==
    /\ phase = "unmounted"
    /\ tabs = <<>>
    /\ activeTabId = NULL
    /\ exchanges = <<>>
    /\ isLoading = FALSE
    /\ state = InitialAgentState
    /\ storage \in {NULL, Unparseable, NotTabs, EmptyArray}
    /\ registryReq = "none"
    /\ hasGeo \in BOOLEAN
    /\ clock = 1
    /\ queries = <<>>
    /\ started = 0
    /\ last = NoOp

\* --------------------------------------------------------------- mount
\* The tabs and the active id loadTabsFromStorage leaves, given the ones
\* of the first render.
LoadedTabs(st, ts) ==
    IF st # NULL /\ st.kind = "array" THEN st.items ELSE ts

LoadedActive(st, active) ==
    IF st # NULL /\ st.kind = "array" /\ Len(st.items) > 0
    THEN st.items[1].id ELSE active

\* The mount effect: fetchExchanges() is issued and loadTabsFromStorage()
\* runs; the render that follows runs the persist effect, or throws when
\* `tabs` is not an array of tab objects.
Mount ==
    /\ phase = "unmounted"
    /\ registryReq' = "pending"
    /\ IF storage # NULL /\ storage.kind = "other"
       THEN /\ phase' = "crashed"
            /\ UNCHANGED << tabs, activeTabId, storage >>
       ELSE /\ phase' = "mounted"
            /\ tabs' = LoadedTabs(storage, tabs)
            /\ activeTabId' = LoadedActive(storage, activeTabId)
            /\ storage' = Persisted(tabs', storage)
    /\ last' = [op |-> "loadFromStorage",
                cleared |-> (last.op = "reload" /\ last.cleared),
                held |-> IF last.op = "reload" THEN last.held ELSE 0,
                before |-> IF last.op = "reload" THEN last.tabs ELSE <<>>]
    /\ UNCHANGED << exchanges, isLoading, state, hasGeo, clock, queries,
                    started >>

\* fetchExchanges resolves: data.ok with the exchange list.
FetchExchangesOk ==
    /\ phase = "mounted"
    /\ registryReq = "pending"
    /\ registryReq' = "done"
    /\ exchanges' = Registry
    /\ last' = [op |-> "fetchExchanges", ok |-> TRUE]
    /\ UNCHANGED << phase, tabs, activeTabId, isLoading, state, storage,
                    hasGeo, clock, queries, started >>

\* A fetchExchanges that asks again when it has failed
FetchExchangesFail_Retry ==
    /\ phase = "mounted"
    /\ registryReq = "pending"
    /\ registryReq' = "pending"
    /\ last' = [op |-> "fetchExchanges", ok |-> FALSE]
    /\ UNCHANGED << phase, tabs, activeTabId, exchanges, isLoading, state,
                    storage, hasGeo, clock, queries, started >>

\* fetchExchanges resolves with ok:false, or fetch / resp.json() throws.
FetchExchangesFail ==
    /\ phase = "mounted"
    /\ registryReq = "pending"
    /\ registryReq' = "done"
    /\ last' = [op |-> "fetchExchanges", ok |-> FALSE]
    /\ UNCHANGED << phase, tabs, activeTabId, exchanges, isLoading, state,
                    storage, hasGeo, clock, queries, started >>

\* ------------------------------------------------------ fetchMarketNews
\* One invocation.  pc: "geo" (getCurrentPosition pending), "fetching"
\* (fetch pending), "done" (returned).  `state` is what performFetch reads of
\* the agent state of the render whose closure the call runs in: the keys
\* that `{...state, market_news: data.data}` takes from it.  requests and
\* alerts list what the invocation has sent to /api/agent_fetch and shown
\* with alert().
Spread(st) == [k \in (DOMAIN st) \ {"market_news"} |-> st[k]]

Invocation(mode, exchangeId) ==
    [ mode |-> mode, exchangeId |-> exchangeId, pc |-> "done", geo |-> "none",
      label |-> UNDEFINED, exchangeData |-> NULL, queryMode |-> UNDEFINED,
      state |-> Spread(state), requests |-> <<>>, alerts |-> <<>> ]

\* A performFetch that sends the POST a second time
PerformFetchCall_Twice(q, lat, lon, mode, label, exchangeData) ==
    LET request == [ lat |-> lat, lon |-> lon, query_mode |-> mode,
                     days |-> Days, max_results |-> MaxResults ]
    IN [ q EXCEPT !.pc = "fetching",
                  !.label = label,
                  !.queryMode = mode,
                  !.exchangeData = exchangeData,
                  !.requests = @ \o << request, request >> ]

\* performFetch up to its first suspension: the POST to /api/agent_fetch.
PerformFetchCall(q, lat, lon, mode, label, exchangeData) ==
    [ q EXCEPT !.pc = "fetching",
               !.label = label,
               !.queryMode = mode,
               !.exchangeData = exchangeData,
               !.requests = Append(@, [ lat |-> lat, lon |-> lon,
                                        query_mode |-> mode, days |-> Days,
                                        max_results |-> MaxResults ]) ]

\* The invocation returns without telling the user anything
Alerted_Silent(q, msg) == [ q EXCEPT !.pc = "done" ]

\* alert(msg), after which the invocation returns
Alerted(q, msg) == [ q EXCEPT !.pc = "done", !.alerts = Append(@, msg) ]

\* The location branch without the capability check of lines 99-103
LocationBranch_Unchecked(q) ==
    [ q |-> [ q EXCEPT !.pc = "geo", !.geo = "requested" ], busy |-> TRUE ]

\* The location branch of fetchMarketNews, up to its return.
LocationBranch(q) ==
    IF ~hasGeo
    THEN [ q |-> Alerted(q, "Geolocation not supported by your browser"),
           busy |-> FALSE ]
    ELSE [ q |-> [ q EXCEPT !.pc = "geo", !.geo = "requested" ],
           busy |-> TRUE ]

\* The exchange branch with setIsLoading(false) left out of its early returns
ExchangeBranch_StaysBusy(q) ==
    IF q.exchangeId = ""
    THEN [ q |-> Alerted(q, "Please select a stock exchange"),
           busy |-> TRUE ]
    ELSE IF ~Resolves(exchanges, q.exchangeId)
         THEN [ q |-> Alerted(q, "Invalid exchange selected"),
                busy |-> TRUE ]
         ELSE LET exchange == Find(exchanges, q.exchangeId) IN
              [ q |-> PerformFetchCall(q, exchange.location[1],
                                       exchange.location[2],
                                       "exchange_specific", exchange.name,
                                       exchange),
                busy |-> TRUE ]

\* The exchange branch of fetchMarketNews, up to its first suspension.
ExchangeBranch(q) ==
    IF q.exchangeId = ""
    THEN [ q |-> Alerted(q, "Please select a stock exchange"),
           busy |-> FALSE ]
    ELSE IF ~Resolves(exchanges, q.exchangeId)
         THEN [ q |-> Alerted(q, "Invalid exchange selected"),
                busy |-> FALSE ]
         ELSE LET exchange == Find(exchanges, q.exchangeId) IN
              [ q |-> PerformFetchCall(q, exchange.location[1],
                                       exchange.location[2],
                                       "exchange_specific", exchange.name,
                                       exchange),
                busy |-> TRUE ]

fetchMarketNews(mode, exchangeId) ==
    /\ phase = "mounted"
    /\ started < MaxQueries
    /\ started' = started + 1
    /\ LET q == Invocation(mode, exchangeId)
           r == IF mode = "location" THEN LocationBranch(q)
                ELSE ExchangeBranch(q)
       IN /\ queries' = IF r.q.pc = "done" THEN queries
                        ELSE Append(queries, r.q)
          /\ isLoading' = r.busy
          /\ last' = [op |-> "fetchMarketNews", q |-> r.q]
    /\ UNCHANGED << phase, tabs, activeTabId, exchanges, state, storage,
                    registryReq, hasGeo, clock >>

\* getCurrentPosition calls the success callback.
GeoSuccess(i, pos) ==
    /\ phase = "mounted"
    /\ queries[i].pc = "geo"
    /\ LET q == PerformFetchCall([ queries[i] EXCEPT !.geo = "position" ],
                                 pos[1], pos[2], "location_based",
                                 "Your Location", NULL)
       IN /\ queries' = [ queries EXCEPT ![i] = q ]
          /\ last' = [op |-> "geoSuccess", q |-> q]
    /\ UNCHANGED << phase, tabs, activeTabId, exchanges, isLoading, state,
                    storage, registryReq, hasGeo, clock, started >>

\* An error callback that reports the failure and gives up
GeoFallback_Alert(q) ==
    Alerted([ q EXCEPT !.geo = "error" ], "Unable to retrieve your location")

\* What the error callback of getCurrentPosition does to the invocation.
GeoFallback(q) ==
    PerformFetchCall([ q EXCEPT !.geo = "error" ], FallbackLat, FallbackLon,
                     "location_based", "New York (Demo)", NULL)

\* getCurrentPosition calls the error callback (denied, unavailable, timeout).
GeoError(i) ==
    /\ phase = "mounted"
    /\ queries[i].pc = "geo"
    /\ LET q == GeoFallback(queries[i])
       IN /\ queries' = [ queries EXCEPT ![i] = q ]
          /\ last' = [op |-> "geoError", q |-> q]
    /\ UNCHANGED << phase, tabs, activeTabId, exchanges, isLoading, state,
                    storage, registryReq, hasGeo, clock, started >>

\* ---------------------------------------------------------- performFetch
\* The QueryTab built on success; t is the reading of Date.now().
NewTab(q, data, t) ==
    [ id |-> TabId(t),
      title |-> q.label,
      data |-> data,
      timestamp |-> IsoString(t),
      queryMode |-> q.queryMode,
      exchange |-> IF q.queryMode = "exchange_specific" THEN q.label
                   ELSE UNDEFINED,
      exchangeData |-> q.exchangeData ]

\* setTabs(prev => [...prev, newTab])
AddTab_AtEnd(newTab, prev) == prev \o <<newTab>>

\* setTabs(prev => [newTab, ...prev])
AddTab(newTab, prev) == <<newTab>> \o prev

\* setState({...state}) : the fetched records are not written
SetMarketNews_Forgotten(q, data) ==
    [k \in (DOMAIN q.state) \cup {"market_news"} |->
        IF k = "market_news" THEN state.market_news ELSE q.state[k]]

\* The first records fetched stay: a later success does not replace them
SetMarketNews_KeepFirst(q, data) ==
    [k \in (DOMAIN q.state) \cup {"market_news"} |->
        IF k = "market_news"
        THEN (IF state.market_news # <<>> THEN state.market_news ELSE data)
        ELSE q.state[k]]

\* setState({...state, market_news: data.data}) with the closure's state.
SetMarketNews(q, data) ==
    [k \in (DOMAIN q.state) \cup {"market_news"} |->
        IF k = "market_news" THEN data ELSE q.state[k]]

\* performFetch without its finally block: the flag keeps its value
Finally_Skipped(busy) == busy

\* finally { setIsLoading(false) }
Finally(busy) == FALSE

\* The block with the busy flag cleared before the tab is added
SuccessBlock_FlagFirst(q, data, t) ==
    LET newTab == NewTab(q, data, t) IN
    [ order |-> << "isLoading", "tabs", "activeTabId", "state" >>,
      tabs |-> newTab,
      activeTabId |-> newTab.id,
      state |-> SetMarketNews(q, data),
      isLoading |-> Finally(isLoading) ]

\* The statements performFetch runs, with no await between them, once
\* resp.json() has given a body with ok:true: the setters it calls, in
\* program order, and the argument of each (for setTabs, the tab that the
\* updater prepends).
SuccessBlock(q, data, t) ==
    LET newTab == NewTab(q, data, t) IN
    [ order |-> << "tabs", "activeTabId", "state", "isLoading" >>,
      tabs |-> newTab,
      activeTabId |-> newTab.id,
      state |-> SetMarketNews(q, data),
      isLoading |-> Finally(isLoading) ]

\* The response is OK and its body has ok:true.  Date.now() reads t: the
\* latest reading again, or a later one.  `writes` lists the setters in the
\* order the step called them.  `older` counts the invocations
\* called before this one that are still in flight; `overtaken` says that
\* this is the oldest invocation in flight and that the step before was the
\* success of one called after it; `afterClear` says that the step before
\* was a confirmed clearAllTabs on a store that held tabs.
FetchSucceeds(i, data, t) ==
    /\ phase = "mounted"
    /\ queries[i].pc = "fetching"
    /\ clock' = t
    /\ \E block \in { SuccessBlock(queries[i], data, t) } :
       /\ tabs' = AddTab(block.tabs, tabs)
       /\ activeTabId' = block.activeTabId
       /\ state' = block.state
       /\ isLoading' = block.isLoading
       /\ storage' = Persisted(tabs', storage)
       /\ last' = [op |-> "fetchSucceeds",
                   q |-> [ queries[i] EXCEPT !.pc = "done" ],
                   data |-> data, held |-> Len(tabs), older |-> i - 1,
                   writes |-> block.order,
                   afterClear |-> (last.op = "clearAllTabs" /\ last.confirmed
                                   /\ last.held > 0),
                   overtaken |-> (last.op = "fetchSucceeds" /\ last.older > 0
                                  /\ i = 1)]
    /\ queries' = Remove(queries, i)
    /\ UNCHANGED << phase, exchanges, registryReq, hasGeo, started >>

\* How a fetch fails, with the alert each shows.
Failures ==
    { [kind |-> "notOk", alert |-> "API error"],
      [kind |-> "okFalse", alert |-> "Failed to fetch market news"],
      [kind |-> "exception", alert |-> "Network error"] }

\* !resp.ok, or ok:false in the body, or fetch / resp.json() throws.
FetchFails(i, f) ==
    /\ phase = "mounted"
    /\ queries[i].pc = "fetching"
    /\ queries' = Remove(queries, i)
    /\ isLoading' = Finally(isLoading)
    /\ last' = [op |-> "fetchFails", q |-> Alerted(queries[i], f.alert),
                kind |-> f.kind]
    /\ UNCHANGED << phase, tabs, activeTabId, exchanges, state, storage,
                    registryReq, hasGeo, clock, started >>

\* ------------------------------------------------------- tab operations
TabIds(ts) == { ts[i].id : i \in 1..Len(ts) }

\* onClick={() => setActiveTabId(tab.id)} of a rendered tab
selectTab(tabId) ==
    /\ phase = "mounted"
    /\ tabId \in TabIds(tabs)
    /\ activeTabId' = tabId
    /\ last' = [op |-> "selectTab", id |-> tabId]
    /\ UNCHANGED << phase, tabs, exchanges, isLoading, state, storage,
                    registryReq, hasGeo, clock, queries, started >>

\* closeTab without the re-selection of lines 187-190
ActiveAfterClose_Keep(ts, active, tabId) == active

\* The active id closeTab leaves.
ActiveAfterClose(ts, active, tabId) ==
    IF active = tabId
    THEN LET remainingTabs == FilterOut(ts, tabId) IN
         IF Len(remainingTabs) > 0 THEN remainingTabs[1].id ELSE NULL
    ELSE active

closeTab(tabId) ==
    /\ phase = "mounted"
    /\ tabId \in TabIds(tabs)
    /\ tabs' = FilterOut(tabs, tabId)
    /\ activeTabId' = ActiveAfterClose(tabs, activeTabId, tabId)
    /\ storage' = Persisted(tabs', storage)
    /\ last' = [op |-> "closeTab", id |-> tabId,
                wasActive |-> (activeTabId = tabId), held |-> Len(tabs)]
    /\ UNCHANGED << phase, exchanges, isLoading, state, registryReq, hasGeo,
                    clock, queries, started >>

\* setItem("market_tabs", "[]") in place of removeItem
Cleared_EmptyArray(st) == EmptyArray

\* The storage key after a confirmed clearAllTabs: removeItem.
Cleared(st) == NULL

\* A clearAllTabs that also drops the queries in flight
clearAllTabs_Cancelling(confirmed) ==
    /\ phase = "mounted"
    /\ IF confirmed
       THEN /\ tabs' = <<>>
            /\ activeTabId' = NULL
            /\ storage' = Cleared(storage)
            /\ queries' = <<>>
            /\ isLoading' = FALSE
       ELSE UNCHANGED << tabs, activeTabId, storage, queries, isLoading >>
    /\ last' = [op |-> "clearAllTabs", confirmed |-> confirmed,
                held |-> Len(tabs)]
    /\ UNCHANGED << phase, exchanges, state, registryReq, hasGeo, clock,
                    started >>

\* clearAllTabs without the confirm() gate: the answer is not looked at
clearAllTabs_Ungated(confirmed) ==
    /\ phase = "mounted"
    /\ tabs' = <<>>
    /\ activeTabId' = NULL
    /\ storage' = Cleared(storage)
    /\ last' = [op |-> "clearAllTabs", confirmed |-> confirmed,
                held |-> Len(tabs)]
    /\ UNCHANGED << phase, exchanges, isLoading, state, registryReq, hasGeo,
                    clock, queries, started >>

\* if (confirm("Clear all tabs?")) { ... } : `confirmed` is the answer.
clearAllTabs(confirmed) ==
    /\ phase = "mounted"
    /\ IF confirmed
       THEN /\ tabs' = <<>>
            /\ activeTabId' = NULL
            /\ storage' = Cleared(storage)
       ELSE UNCHANGED << tabs, activeTabId, storage >>
    /\ last' = [op |-> "clearAllTabs", confirmed |-> confirmed,
                held |-> Len(tabs)]
    /\ UNCHANGED << phase, exchanges, isLoading, state, registryReq, hasGeo,
                    clock, queries, started >>

\* ------------------------------------------------------------ environment
\* The assistant component writes the shared agent state.
AssistantWrite(p) ==
    /\ phase = "mounted"
    /\ state.proverbs # p
    /\ state' = [ state EXCEPT !.proverbs = p ]
    /\ last' = [op |-> "assistantWrite"]
    /\ UNCHANGED << phase, tabs, activeTabId, exchanges, isLoading, storage,
                    registryReq, hasGeo, clock, queries, started >>

\* The page is reloaded: every useState starts over, pending callbacks of
\* the old page never run, localStorage stays.
Reload ==
    /\ phase # "unmounted"
    /\ phase' = "unmounted"
    /\ tabs' = <<>>
    /\ activeTabId' = NULL
    /\ exchanges' = <<>>
    /\ isLoading' = FALSE
    /\ state' = InitialAgentState
    /\ registryReq' = "none"
    /\ queries' = <<>>
    /\ last' = [op |-> "reload",
                cleared |-> (last.op = "clearAllTabs" /\ last.confirmed),
                held |-> IF last.op = "clearAllTabs" THEN last.held ELSE 0,
                tabs |-> tabs]
    /\ UNCHANGED << storage, hasGeo, clock, started >>

Next ==
    \/ Mount
    \/ FetchExchangesOk
    \/ FetchExchangesFail
    \/ fetchMarketNews("location", UNDEFINED)
    \/ \E exchangeId \in ExchangeIds : fetchMarketNews("exchange", exchangeId)
    \/ \E i \in 1..Len(queries), pos \in Positions : GeoSuccess(i, pos)
    \/ \E i \in 1..Len(queries) : GeoError(i)
    \/ \E i \in 1..Len(queries), data \in DataSets, t \in {clock, clock + 1} :
          FetchSucceeds(i, data, t)
    \/ \E i \in 1..Len(queries), f \in Failures : FetchFails(i, f)
    \/ \E tabId \in TabIds(tabs) : selectTab(tabId)
    \/ \E tabId \in TabIds(tabs) : closeTab(tabId)
    \/ \E confirmed \in BOOLEAN : clearAllTabs(confirmed)
    \/ Reload

Spec == Init /\ [][Next]_vars

\* The page together with the assistant component that shares the agent
\* state, and a news service that answers different queries differently.
NextShared ==
    \/ Next
    \/ \E p \in Proverbs : AssistantWrite(p)
    \/ \E i \in 1..Len(queries), data \in MoreDataSets, t \in {clock, clock + 1} :
          FetchSucceeds(i, data, t)

SpecShared == Init /\ [][NextShared]_vars

\* getCurrentPosition and fetch are answered in the end: the browser calls
\* one of the two geolocation callbacks (the request carries timeout: 10000),
\* and the fetch promise settles.
GeoCompletes ==
    \E i \in 1..Len(queries) :
        \/ \E pos \in Positions : GeoSuccess(i, pos)
        \/ GeoError(i)

FetchCompletes ==
    \E i \in 1..Len(queries) :
        \/ \E data \in DataSets, t \in {clock, clock + 1} :
              FetchSucceeds(i, data, t)
        \/ \E f \in Failures : FetchFails(i, f)

SpecLive == Spec /\ WF_vars(GeoCompletes) /\ WF_vars(FetchCompletes)

\* ------------------------------------------- the /api/agent_fetch proxy
\* What one call of the route handler meets: whether req.json() parses the
\* request body, whether the fetch to the FastAPI server throws or gives a
\* response, and that response's status, content-type header (a list of
\* its parts, NULL when the header is absent) and body.
BackendStatuses == {200, 201, 304, 404, 500, 503}

ContentTypes ==
    { NULL, << "application/json" >>,
      << "application/json", "charset=utf-8" >>, << "text/html" >> }

BackendBodies ==
    { [kind |-> "json", value |-> [ok |-> TRUE, data |-> << "A" >>]],
      [kind |-> "json", value |-> [ok |-> FALSE, error |-> "no news"]],
      [kind |-> "json", value |-> [detail |-> "not an envelope"]],
      [kind |-> "text"] }

BackendOutcomes ==
    [ reqBody : {"json", "garbage"}, fetch : {"responds", "throws"},
      status : BackendStatuses, contentType : ContentTypes,
      body : BackendBodies ]

\* Response.ok
IsOk(status) == status \in 200..299

\* contentType.includes("application/json")
IncludesJson(contentType) ==
    \E i \in 1..Len(contentType) : contentType[i] = "application/json"

\* The catch block: NextResponse.json({ok:false, error}, {status: 500})
Caught(message) ==
    [status |-> 500, body |-> [ok |-> FALSE, error |-> message]]

\* NextResponse.json(body, {status}): the Response constructor throws for a
\* status that cannot go with a body (101, 103, 204, 205, 304) or that is
\* outside 200..599; thrown inside the try, that ends in the catch block.
NextResponseJson(body, status) ==
    IF status \in 200..599 /\ status \notin {204, 205, 304}
    THEN [status |-> status, body |-> body]
    ELSE Caught("Invalid response status code")

\* The route handler, from the request to the response it returns.
Proxy(b) ==
    IF b.reqBody # "json" THEN Caught("req.json")
    ELSE IF b.fetch = "throws" THEN Caught("fetch failed")
    ELSE IF ~IsOk(b.status)
         THEN NextResponseJson([ok |-> FALSE,
                                error |-> << "Backend returned", b.status >>],
                               b.status)
    ELSE IF b.contentType = NULL \/ ~IncludesJson(b.contentType)
         THEN NextResponseJson([ok |-> FALSE, error |-> "Expected JSON but got"],
                               500)
    ELSE IF b.body.kind # "json" THEN Caught("res.json")
    ELSE NextResponseJson(b.body.value, 200)

\* The branch performFetch takes on a response of the proxy.
ClientOutcome(resp) ==
    IF ~IsOk(resp.status) THEN "notOk"
    ELSE IF "ok" \in DOMAIN resp.body /\ resp.body.ok THEN "success"
    ELSE "okFalse"

\* One request to the route handler.
POST(b) ==
    /\ last' = [op |-> "POST", backend |-> b, response |-> Proxy(b),
                client |-> ClientOutcome(Proxy(b))]
    /\ UNCHANGED << phase, tabs, activeTabId, exchanges, isLoading, state,
                    storage, registryReq, hasGeo, clock, queries, started >>

NextProxy == \E b \in BackendOutcomes : POST(b)

SpecProxy == Init /\ [][NextProxy]_vars

\* ================================================================ claims
\* a is b with some elements left out, the others in the same order
RECURSIVE IsSubsequence(_, _)
IsSubsequence(a, b) ==
    IF a = <<>> THEN TRUE
    ELSE IF b = <<>> THEN FALSE
    ELSE IF Head(a) = Head(b) THEN IsSubsequence(Tail(a), Tail(b))
    ELSE IsSubsequence(a, Tail(b))

\* The clock reading a tab's id was derived from.
CreatedAt(tab) == tab.id[2]

\* C1: activeTabId is null, and then the collection is empty, or it is the
\* id of a tab that is in the collection.
C1_ActiveTabIdValid ==
    IF activeTabId = NULL THEN tabs = <<>>
    ELSE \E i \in 1..Len(tabs) : tabs[i].id = activeTabId

\* The active tab of three was closed and the new first tab is active.
C1_Witness ==
    /\ last.op = "closeTab" /\ last.wasActive /\ last.held = 3
    /\ Len(tabs) = 2 /\ activeTabId = tabs[1].id

\* C2: the ids of the tabs in the collection are pairwise distinct.
C2_IdsUnique ==
    \A i, j \in 1..Len(tabs) : i # j => tabs[i].id # tabs[j].id

\* C3: the collection is ordered newest-first: no tab precedes one created
\* at a later clock reading, a successful fetch puts its tab at the head and
\* leaves the others as they were, and closeTab leaves the remaining tabs in
\* their order.
C3_NewestFirst ==
    /\ [](\A i, j \in 1..Len(tabs) :
             i < j => CreatedAt(tabs[i]) >= CreatedAt(tabs[j]))
    /\ [][ /\ last'.op = "fetchSucceeds" =>
                /\ Len(tabs') = Len(tabs) + 1
                /\ \A k \in 1..Len(tabs) : tabs'[k + 1] = tabs[k]
           /\ last'.op = "closeTab" =>
                /\ IsSubsequence(tabs', tabs)
                /\ Len(tabs') < Len(tabs) ]_vars

\* One of three tabs was closed and the two that remain were created at
\* different clock readings.
C3_Witness ==
    /\ last.op = "closeTab" /\ last.held = 3 /\ Len(tabs) = 2
    /\ CreatedAt(tabs[1]) > CreatedAt(tabs[2])

\* C4: closeTab of the active tab removes that tab and makes the new first
\* tab active when the store held at least two tabs, and leaves no active
\* tab when it held one.
C4_CloseActive ==
    (last.op = "closeTab" /\ last.wasActive) =>
        /\ Len(tabs) = last.held - 1
        /\ IF last.held >= 2
           THEN tabs # <<>> /\ activeTabId = tabs[1].id
           ELSE activeTabId = NULL

\* C5: closeTab of a tab that is not active removes only that tab and leaves
\* activeTabId as it was.
C5_CloseNonActive ==
    [][ (last'.op = "closeTab" /\ activeTabId # last'.id) =>
            /\ activeTabId' = activeTabId
            /\ Len(tabs') = Len(tabs) - 1
            /\ IsSubsequence(tabs', tabs) ]_vars

\* C6: after a confirmed clearAll there are no tabs, no active tab and no
\* persisted copy (the key is absent, not an empty array), and the
\* loadFromStorage of a reload that follows leaves the store empty.
C6_ClearAllRemovesEverything ==
    /\ (last.op = "clearAllTabs" /\ last.confirmed) =>
          (tabs = <<>> /\ activeTabId = NULL /\ storage = NULL)
    /\ (last.op = "reload" /\ last.cleared) => storage = NULL
    /\ (last.op = "loadFromStorage" /\ last.cleared) =>
          /\ phase = "mounted"
          /\ tabs = <<>> /\ activeTabId = NULL /\ storage = NULL

\* A store that held tabs was cleared, the page reloaded and mounted again.
C6_Witness ==
    last.op = "loadFromStorage" /\ last.cleared /\ last.held >= 1

\* The label an invocation resolves to.
ResolvedLabel(q) ==
    IF q.mode = "exchange"
    THEN Find(Registry, q.exchangeId).name
    ELSE IF q.geo = "position" THEN "Your Location" ELSE "New York (Demo)"

\* C7: a fetch answered OK with ok:true yields exactly one new tab, first
\* and active, titled with the resolved label and holding the fetched
\* records, and market_news holds those records; in exchange mode the one
\* request carried the exchange's coordinates with query_mode
\* exchange_specific and the tab's exchangeData is the exchange record.
C7_SuccessYieldsActiveTab ==
    last.op = "fetchSucceeds" =>
        /\ Len(tabs) = last.held + 1
        /\ activeTabId = tabs[1].id
        /\ tabs[1].title = ResolvedLabel(last.q)
        /\ tabs[1].data = last.data
        /\ state.market_news = last.data
        /\ last.q.mode = "exchange" =>
              LET e == Find(Registry, last.q.exchangeId) IN
              /\ Len(last.q.requests) = 1
              /\ last.q.requests[1].lat = e.location[1]
              /\ last.q.requests[1].lon = e.location[2]
              /\ last.q.requests[1].query_mode = "exchange_specific"
              /\ tabs[1].exchangeData = e
              /\ tabs[1].exchangeData.id = last.q.exchangeId

\* An exchange-mode query succeeded on a store that already held a tab.
C7_Witness ==
    /\ last.op = "fetchSucceeds" /\ last.q.mode = "exchange"
    /\ last.q.exchangeId = "nyse" /\ last.held >= 1
    /\ tabs[1].title = "NYSE" /\ state.market_news = <<"A">>

\* C8: when getCurrentPosition fails, nothing is shown to the user and the
\* invocation goes on to fetch with the coordinates (40.7128, -74.0060);
\* when that fetch succeeds the tab is labeled "New York (Demo)".
C8_GeoFailureFallsBack ==
    /\ last.op = "geoError" =>
          /\ last.q.alerts = <<>>
          /\ last.q.pc = "fetching"
          /\ Len(last.q.requests) = 1
          /\ last.q.requests[1].lat = 407128
          /\ last.q.requests[1].lon = -740060
          /\ \E i \in 1..Len(queries) : queries[i] = last.q
    /\ (last.op = "fetchSucceeds" /\ last.q.geo = "error") =>
          /\ last.q.alerts = <<>>
          /\ tabs[1].title = "New York (Demo)"
          /\ last.q.requests[1].lat = 407128
          /\ last.q.requests[1].lon = -740060

\* The fetch of a location query whose geolocation failed has succeeded.
C8_Witness ==
    /\ last.op = "fetchSucceeds" /\ last.q.geo = "error"
    /\ tabs[1].title = "New York (Demo)"

\* C9: an exchange-mode call whose exchange id is missing or is not in the
\* registry (also while the registry is still loading) shows a validation
\* error, sends no request, adds no tab and returns with the busy flag
\* cleared.
C9_UnresolvedExchangeAborts ==
    /\ []( ( /\ last.op = "fetchMarketNews"
             /\ last.q.mode = "exchange"
             /\ \/ last.q.exchangeId = ""
                \/ \A i \in 1..Len(exchanges) :
                      exchanges[i].id # last.q.exchangeId ) =>
           ( /\ Len(last.q.alerts) = 1
             /\ last.q.alerts[1] \in { "Please select a stock exchange",
                                       "Invalid exchange selected" }
             /\ last.q.requests = <<>>
             /\ last.q.pc = "done"
             /\ \A i \in 1..Len(queries) : queries[i] # last.q
             /\ ~isLoading ) )
    /\ [][ ( /\ last'.op = "fetchMarketNews"
             /\ last'.q.mode = "exchange"
             /\ last'.q.requests = <<>> ) =>
           ( tabs' = tabs /\ queries' = queries /\ storage' = storage ) ]_vars

\* A registry id was passed while the registry was still loading.
C9_Witness ==
    /\ last.op = "fetchMarketNews" /\ last.q.exchangeId = "nyse"
    /\ registryReq = "pending"
    /\ last.q.alerts = << "Invalid exchange selected" >>

\* C10: a location-mode call made when navigator.geolocation is absent shows
\* an error and returns with the busy flag cleared; no position is requested,
\* no request is sent and no tab is added.
C10_NoGeolocationAborts ==
    /\ []( ( /\ last.op = "fetchMarketNews"
             /\ last.q.mode = "location"
             /\ ~hasGeo ) =>
           ( /\ last.q.alerts = << "Geolocation not supported by your browser" >>
             /\ last.q.geo = "none"
             /\ last.q.requests = <<>>
             /\ last.q.pc = "done"
             /\ \A i \in 1..Len(queries) : queries[i] # last.q
             /\ ~isLoading ) )
    /\ [][ ( /\ last'.op = "fetchMarketNews"
             /\ last'.q.mode = "location"
             /\ ~hasGeo ) =>
           ( tabs' = tabs /\ queries' = queries /\ storage' = storage ) ]_vars

\* A location-mode call was made without the capability.
C10_Witness ==
    /\ last.op = "fetchMarketNews" /\ last.q.mode = "location" /\ ~hasGeo
    /\ last.q.alerts # <<>>

\* C11: under SpecLive, where every geolocation request and every fetch is
\* answered, an invocation in flight or a set busy flag leads to a state with
\* no invocation in flight and the flag cleared; and at no time is the flag
\* set while no invocation is in flight, whatever the outcomes were.
C11_ReturnsToIdle ==
    /\ [](queries = <<>> => ~isLoading)
    /\ (queries # <<>> \/ isLoading) ~> (queries = <<>> /\ ~isLoading)

C11_Witness ==
    /\ last.op = "fetchFails"
    /\ last.q.geo = "error"
    /\ queries = <<>>
    /\ ~isLoading

\* C12: a step in which a fetch fails (response not OK, ok:false in the
\* body, or an exception) shows exactly one alert, of the kind of failure,
\* leaves tabs, activeTabId, the stored text and the agent state as they
\* were, and leaves the page mounted.
C12_FailedFetchChangesNothing ==
    [][ last'.op = "fetchFails" =>
           /\ \E f \in Failures : /\ f.kind = last'.kind
                                  /\ last'.q.alerts = << f.alert >>
           /\ last'.q.pc = "done"
           /\ tabs' = tabs
           /\ activeTabId' = activeTabId
           /\ storage' = storage
           /\ state' = state
           /\ phase' = "mounted" ]_vars

C12_Witness ==
    /\ last.op = "fetchFails"
    /\ last.kind = "exception"
    /\ phase = "mounted"
    /\ Len(tabs) > 0
    /\ storage = JSONStringify(tabs)
    /\ state.market_news # <<>>

\* C13: a step in which a fetch succeeds leaves every field of the agent
\* state other than market_news (proverbs) with the value it had just before
\* the step, also when the assistant wrote the state while the fetch was in
\* flight.
C13_SuccessKeepsProverbs ==
    [][ last'.op = "fetchSucceeds" =>
           /\ DOMAIN state' = DOMAIN state
           /\ state'.proverbs = state.proverbs ]_vars

\* The fields of QueryTab, and those among them that hold strings.
TabFields ==
    {"id", "title", "data", "timestamp", "queryMode", "exchange",
     "exchangeData"}

StringFields == {"title", "queryMode", "exchange"}

\* Reading field k gives the same value on a and on b; a key that is
\* missing reads as undefined.
SameField(a, b, k) ==
    IF k \in DOMAIN a /\ k \in DOMAIN b
    THEN a[k] = b[k]
    ELSE \A o \in {a, b} :
            k \in DOMAIN o => (k \in StringFields /\ o[k] = UNDEFINED)

\* C14: when the page is reloaded while it holds a non-empty tab sequence
\* (which the persist effect has stored), the load at the next mount leaves
\* a sequence of the same length whose i-th tab reads the same as the i-th
\* tab held before the reload in every field of QueryTab, and the first tab
\* is the active one.
C14_RoundTrip ==
    (last.op = "loadFromStorage" /\ last.before # <<>>) =>
        /\ phase = "mounted"
        /\ Len(tabs) = Len(last.before)
        /\ \A i \in 1..Len(tabs) : \A k \in TabFields :
              SameField(tabs[i], last.before[i], k)
        /\ activeTabId = tabs[1].id

C14_Witness ==
    /\ last.op = "loadFromStorage"
    /\ Len(last.before) >= 2
    /\ \E i \in 1..Len(tabs) :
          /\ "exchange" \in DOMAIN last.before[i]
          /\ last.before[i].exchange = UNDEFINED
          /\ "exchange" \notin DOMAIN tabs[i]
    /\ \E i \in 1..Len(tabs) : tabs[i].queryMode = "exchange_specific"
    /\ activeTabId = tabs[1].id

\* C15: after the load at mount has run on a stored value that is absent,
\* that JSON.parse rejects, or that parses to something other than an array
\* of tabs, the page is mounted (it goes on accepting queries and tab
\* operations), holds no tab and has no active tab.
C15_MalformedLoadsEmpty ==
    ( /\ last.op = "loadFromStorage"
      /\ \/ storage = NULL
         \/ storage.kind \in {"unparseable", "other"} ) =>
        /\ phase = "mounted"
        /\ tabs = <<>>
        /\ activeTabId = NULL

\* C16: in every state of the mounted page in which the tab sequence is not
\* empty (so after every addTab, closeTab and load that leaves it non-empty),
\* the stored text is the serialisation of the whole current sequence.
C16_StorageAgrees ==
    (phase = "mounted" /\ tabs # <<>>) => storage = JSONStringify(tabs)

C16_Witness ==
    /\ last.op = "closeTab"
    /\ last.held = 3
    /\ Len(tabs) = 2
    /\ storage = JSONStringify(tabs)

\* C17: a clearAllTabs step in which the user declines the confirmation
\* leaves tabs, activeTabId and the stored text unchanged.
C17_DeclinedClearChangesNothing ==
    [][ (last'.op = "clearAllTabs" /\ ~last'.confirmed) =>
           /\ tabs' = tabs
           /\ activeTabId' = activeTabId
           /\ storage' = storage ]_vars

C17_Witness ==
    /\ last.op = "clearAllTabs"
    /\ ~last.confirmed
    /\ last.held = 2
    /\ Len(tabs) = 2
    /\ activeTabId = tabs[2].id
    /\ storage = JSONStringify(tabs)

\* C18: in every state in which some invocation has its fetch in flight,
\* isLoading is true, also when another invocation that overlapped with it
\* has already resolved.
C18_BusyWhileFetching ==
    (\E i \in 1..Len(queries) : queries[i].pc = "fetching") => isLoading

\* C19: isLoading does not stop a second call of fetchMarketNews, so two
\* invocations can be in flight together.  Every step in which a fetch
\* succeeds puts its tab in front of all the tabs held, makes it the active
\* tab and makes its records market_news; so when the oldest invocation in
\* flight succeeds right after one that was called later, its tab and its
\* records are the final ones, and the tab of the other is the second.
C19_LastResolverWins ==
    [][ last'.op = "fetchSucceeds" =>
           /\ tabs' = << tabs'[1] >> \o tabs
           /\ tabs'[1].data = last'.data
           /\ tabs'[1].title = last'.q.label
           /\ activeTabId' = tabs'[1].id
           /\ state'.market_news = last'.data
           /\ last'.overtaken =>
                 /\ tabs'[2].data = last.data
                 /\ tabs'[2].title = last.q.label ]_vars

C19_Witness ==
    /\ last.op = "fetchSucceeds"
    /\ last.overtaken
    /\ started = 2
    /\ Len(tabs) = 2
    /\ tabs[1].data = <<"B">>
    /\ tabs[2].data = <<"A">>
    /\ tabs[1].title = "Your Location"
    /\ tabs[2].title # "Your Location"
    /\ activeTabId = tabs[1].id
    /\ tabs[2].id # tabs[1].id
    /\ state.market_news = <<"B">>

\* C20: a closeTab step that empties the tab sequence leaves the stored
\* text as it was, the serialisation of the tabs held before the step; any
\* step that changes the stored text either removes the key or stores a
\* non-empty sequence, and while no tab is held only a successful fetch or a
\* confirmed clearAllTabs changes it; and a load at mount that finds a
\* non-empty stored sequence after a session that held no tab makes those
\* stored tabs the tabs of the page again.
C20_StaleCopyAfterClosingAll ==
    /\ [][ /\ (last'.op = "closeTab" /\ tabs' = <<>>) =>
                 /\ storage' = storage
                 /\ storage = JSONStringify(tabs)
           /\ storage' # storage =>
                 /\ \/ storage' = NULL
                    \/ storage'.kind = "array" /\ storage'.items # <<>>
                 /\ tabs = <<>> =>
                       \/ last'.op = "fetchSucceeds"
                       \/ last'.op = "clearAllTabs" /\ last'.confirmed ]_vars
    /\ []( ( /\ last.op = "loadFromStorage"
             /\ last.before = <<>>
             /\ storage # NULL
             /\ storage.kind = "array"
             /\ storage.items # <<>> ) =>
              /\ phase = "mounted"
              /\ tabs = storage.items
              /\ activeTabId = tabs[1].id )

C20_Witness ==
    /\ last.op = "loadFromStorage"
    /\ last.before = <<>>
    /\ ~last.cleared
    /\ Len(tabs) = 2
    /\ storage = JSONStringify(tabs)

C22_AtMostOneRequest ==
    /\ [] /\ \A i \in 1..Len(queries) :
               /\ queries[i].pc = "geo" => queries[i].requests = <<>>
               /\ queries[i].pc = "fetching" =>
                     /\ Len(queries[i].requests) = 1
                     /\ queries[i].requests[1].days = 1
                     /\ queries[i].requests[1].max_results = 20
          /\ (last.op = "fetchMarketNews" /\ last.q.pc = "done") =>
                last.q.requests = <<>>
          /\ last.op \in {"geoSuccess", "geoError"} =>
                /\ last.q.pc = "fetching"
                /\ Len(last.q.requests) = 1
          /\ last.op \in {"fetchSucceeds", "fetchFails"} =>
                Len(last.q.requests) = 1
    /\ [][ last'.op = "fetchFails" =>
              \E i \in 1..Len(queries) :
                 /\ last'.q.requests = queries[i].requests
                 /\ queries' = Remove(queries, i) ]_vars

C22_Witness ==
    /\ last.op = "fetchFails"
    /\ last.kind = "okFalse"
    /\ last.q.geo = "position"
    /\ Len(last.q.requests) = 1
    /\ last.q.requests[1].query_mode = "location_based"
    /\ Len(queries) = 1
    /\ Len(queries[1].requests) = 1

\* C23: a step in which fetchExchanges fails leaves the exchange list empty
\* and the request finished, with nothing pending that would ask again.
\* In the mounted page, once the request is finished with the list empty,
\* the list stays empty and no request is pending after every step; an
\* exchange-mode call of fetchMarketNews then returns at once with one of
\* the two validation alerts, has sent no request and is not in flight; a
\* location-mode call, where geolocation exists, goes on to ask for the
\* position.
C23_RegistryFailureIsFinal ==
    /\ [][ (last'.op = "fetchExchanges" /\ ~last'.ok) =>
              /\ exchanges' = <<>>
              /\ registryReq' = "done" ]_vars
    /\ [][ (phase = "mounted" /\ registryReq = "done" /\ exchanges = <<>>
            /\ last'.op # "reload") =>
              /\ exchanges' = <<>>
              /\ registryReq' = "done"
              /\ (last'.op = "fetchMarketNews" /\ last'.q.mode = "exchange") =>
                    /\ last'.q.pc = "done"
                    /\ \/ last'.q.alerts = << "Please select a stock exchange" >>
                       \/ last'.q.alerts = << "Invalid exchange selected" >>
                    /\ last'.q.requests = <<>>
                    /\ queries' = queries
              /\ (last'.op = "fetchMarketNews" /\ last'.q.mode = "location"
                  /\ hasGeo) =>
                    /\ last'.q.pc = "geo"
                    /\ queries' = Append(queries, last'.q) ]_vars

C23_Witness ==
    /\ registryReq = "done"
    /\ exchanges = <<>>
    /\ last.op = "fetchMarketNews"
    /\ last.q.exchangeId = "nyse"
    /\ last.q.alerts = << "Invalid exchange selected" >>
    /\ Len(tabs) > 0
    /\ tabs[1].title = "Your Location"

\* C24: a confirmed clearAllTabs leaves every invocation in flight as it
\* is; and a fetch that succeeds right after a confirmed clearAllTabs finds
\* no tab and no stored text, leaves its own tab as the only and the active
\* one, makes its records market_news and stores that one tab.
C24_ClearDoesNotCancel ==
    [][ /\ (last'.op = "clearAllTabs" /\ last'.confirmed) =>
              /\ queries' = queries
              /\ isLoading' = isLoading
        /\ (last'.op = "fetchSucceeds" /\ last'.afterClear) =>
              /\ tabs = <<>>
              /\ storage = NULL
              /\ Len(tabs') = 1
              /\ tabs'[1].title = last'.q.label
              /\ tabs'[1].data = last'.data
              /\ activeTabId' = tabs'[1].id
              /\ state'.market_news = last'.data
              /\ storage' = JSONStringify(tabs') ]_vars

C24_Witness ==
    /\ last.op = "fetchSucceeds"
    /\ last.afterClear
    /\ last.held = 0
    /\ Len(tabs) = 1
    /\ activeTabId = tabs[1].id
    /\ storage = JSONStringify(tabs)
    /\ state.market_news = last.data

\* C25: every answer of the proxy is a status with a JSON body.  The
\* answer is the backend's body, unchanged and with status 200, exactly when
\* the request parsed, the backend responded with an OK status and a JSON
\* content type, and its body parsed.  For a backend status that is not OK
\* the answer is {ok:false, error} with that same status; for a content
\* type that is not JSON and for every exception it is {ok:false, error}
\* with status 500.  Every such failure makes the client take its non-OK
\* branch.
C25_ProxyEnvelope ==
    last.op = "POST" =>
        LET b == last.backend
            r == last.response
            reached == b.reqBody = "json" /\ b.fetch = "responds"
            forwarded == /\ reached
                         /\ IsOk(b.status)
                         /\ b.contentType # NULL
                         /\ IncludesJson(b.contentType)
                         /\ b.body.kind = "json"
        IN /\ DOMAIN r = {"status", "body"}
           /\ forwarded => r = [status |-> 200, body |-> b.body.value]
           /\ ~forwarded =>
                 /\ DOMAIN r.body = {"ok", "error"}
                 /\ r.body.ok = FALSE
                 /\ ~IsOk(r.status)
                 /\ last.client = "notOk"
           /\ (reached /\ ~IsOk(b.status)) => r.status = b.status
           /\ (~reached \/ (IsOk(b.status) /\ ~forwarded)) => r.status = 500

====
